---- MODULE Spec2Model ----
(***************************************************************************)
(* The "remove formatting" toolbar control of the note editor              *)
(* (ts/editor/editor-toolbar/RemoveFormatButton.svelte) together with the  *)
(* focus handlers of the rich-text input (ts/editor/rich-text-input) that  *)
(* enable and disable the shared Surrounder.                               *)
(*                                                                         *)
(* One step of the model is one browser task: an event handler or a        *)
(* component initialisation followed by the microtask checkpoint in which  *)
(* the component's reactive declarations ($:) are re-run.                  *)
(***************************************************************************)
EXTENDS Integers, Sequences, FiniteSets, TLC

\* ------------------------------------------------------------------ bounds
\* how many other format-providing controls register into removeFormats
MaxOtherKeys == 2
\* how many times the RemoveFormatButton component is initialised
MaxInits == 2
\* how many rich-text inputs the editor holds
NumInputs == 2

\* keys the other format-providing controls use (pairwise distinct); the
\* n-th control to register uses the n-th key
KeyPool == <<"bold", "italic", "underline", "superscript", "subscript",
             "text color", "highlight color">>
Inputs == 1..NumInputs

\* ------------------------------------------------------------------- state
VARIABLES
    removeFormats,     \* the registry store: sequence of [key, name, show, active]
    activeKeys,        \* component variable, $: line 56
    inactiveKeys,      \* component variable, $: line 61
    showFormats,       \* component variable, $: line 66 (references = registry indices)
    disabled,          \* component variable, line 85
    mounted,           \* a RemoveFormatButton instance exists and is mounted
    surrounderApi,     \* the input the Surrounder is enabled for, 0 = none
    surrounderFormats, \* keys registered with surrounder.registerFormat
    focusedInput,      \* the note editor's focusedInput store, 0 = unset
    focused,           \* the rich-text input holding DOM focus, 0 = none
    lastOp             \* the handler that ran in the latest task, with its calls

vars == <<removeFormats, activeKeys, inactiveKeys, showFormats, disabled,
          mounted, surrounderApi, surrounderFormats, focusedInput, focused,
          lastOp>>

key == "simple spans"

\* ----------------------------------------------------------- pure helpers
Idx(formats) == DOMAIN formats

\* array.filter(pred) as the increasing sequence of the indices it keeps
RECURSIVE FilterIdx(_, _, _)
FilterIdx(formats, keep, i) ==
    IF i > Len(formats) THEN << >>
    ELSE IF keep[i] THEN <<i>> \o FilterIdx(formats, keep, i + 1)
    ELSE FilterIdx(formats, keep, i + 1)

ActiveKeys_ShownOnly(formats) ==
    LET keep == [i \in Idx(formats) |-> formats[i].active /\ formats[i].show]
        ix == FilterIdx(formats, keep, 1)
    IN [n \in DOMAIN ix |-> formats[ix[n]].key]

\* $removeFormats.filter((format) => format.active).map((format) => format.key)
ActiveKeys(formats) ==
    LET keep == [i \in Idx(formats) |-> formats[i].active]
        ix == FilterIdx(formats, keep, 1)
    IN [n \in DOMAIN ix |-> formats[ix[n]].key]

InactiveKeys_NoNegation(formats) ==
    LET keep == [i \in Idx(formats) |-> formats[i].active]
        ix == FilterIdx(formats, keep, 1)
    IN [n \in DOMAIN ix |-> formats[ix[n]].key]

\* $removeFormats.filter((format) => !format.active).map((format) => format.key)
InactiveKeys(formats) ==
    LET keep == [i \in Idx(formats) |-> ~formats[i].active]
        ix == FilterIdx(formats, keep, 1)
    IN [n \in DOMAIN ix |-> formats[ix[n]].key]

\* $removeFormats.filter((format) => format.show); the objects are shared
\* with the registry, so the result is kept as registry indices
ShowFormats(formats) ==
    FilterIdx(formats, [i \in Idx(formats) |-> formats[i].show], 1)

Shown(shown) == {shown[n] : n \in DOMAIN shown}

Deselect_Everything(formats, shown, alt) ==
    [j \in Idx(formats) |->
        IF alt THEN [formats[j] EXCEPT !.active = FALSE] ELSE formats[j]]

Deselect_IgnoreModifier(formats, shown, alt) ==
    [j \in Idx(formats) |->
        IF j \in Shown(shown)
        THEN [formats[j] EXCEPT !.active = FALSE]
        ELSE formats[j]]

\* if (altPressed(event)) for (const format of showFormats) format.active = false
Deselect(formats, shown, alt) ==
    [j \in Idx(formats) |->
        IF alt /\ j \in Shown(shown)
        THEN [formats[j] EXCEPT !.active = FALSE]
        ELSE formats[j]]

Toggle_Dropped(formats, i) == formats

\* format.active = !format.active
Toggle(formats, i) == [formats EXCEPT ![i].active = ~formats[i].active]

ItemClick_ToggleFirst(formats, shown, i, alt) ==
    [value |-> Deselect(Toggle(formats, i), shown, alt), set |-> TRUE]

ItemClick_NoStoreSet(formats, shown, i, alt) ==
    [value |-> Toggle(Deselect(formats, shown, alt), i), set |-> FALSE]

\* the body of onItemClick: the registry it leaves, and whether it ends
\* with the store assignment that invalidates $removeFormats
ItemClick(formats, shown, i, alt) ==
    [value |-> Toggle(Deselect(formats, shown, alt), i), set |-> TRUE]

Disabled_NotNegated(value) == value

\* (value) => (disabled = !value)
Disabled(value) == ~value

\* the Surrounder (ts/editor/surround): enable(api) makes api the enabled
\* input, disable() leaves none, and the active store is true iff some
\* input is enabled
NoInput == 0
Enable(api) == api
SurrounderActive == surrounderApi # NoInput

\* formats.concat({ key, name: key, show: false, active: true })
BuiltIn == [key |-> key, name |-> key, show |-> FALSE, active |-> TRUE]

HasKey(formats, k) == \E i \in Idx(formats) : formats[i].key = k
Count(formats, k) == Cardinality({i \in Idx(formats) : formats[i].key = k})
\* the entries registered by the other controls
Others(formats) == Len(formats) - Count(formats, key)

\* lastOp when nothing is recorded: op is the handler, before the registry
\* an item click started from, and activeKeys, inactiveKeys, active the
\* arguments of a surrounder.remove call and the value of surrounder.active
\* when it was made, prev the handler that ran before that call
NoOp == [op |-> "none", prev |-> "none", via |-> "none", index |-> 0,
         alt |-> FALSE, before |-> << >>,
         activeKeys |-> << >>, inactiveKeys |-> << >>, active |-> FALSE]

Op(name) == [NoOp EXCEPT !.op = name]

\* the reactive declarations of lines 56-66, re-run when $removeFormats
\* has been invalidated
Update(formats, invalidated) ==
    IF invalidated
    THEN /\ activeKeys' = ActiveKeys(formats)
         /\ inactiveKeys' = InactiveKeys(formats)
         /\ showFormats' = ShowFormats(formats)
    ELSE UNCHANGED <<activeKeys, inactiveKeys, showFormats>>

\* ------------------------------------------------------------------- Init
Init ==
    /\ removeFormats = << >>
    /\ activeKeys = << >>
    /\ inactiveKeys = << >>
    /\ showFormats = << >>
    /\ disabled = FALSE
    /\ mounted = FALSE
    /\ surrounderApi = NoInput
    /\ surrounderFormats = {}
    /\ focusedInput = 0
    /\ focused = 0
    /\ lastOp = NoOp

\* ---------------------------------------------------------------- actions
\* another format-providing control appends its entry during its own
\* initialisation; the component, when mounted, is subscribed to the store
Register(show, active) ==
    /\ Others(removeFormats) < MaxOtherKeys
    /\ LET k == KeyPool[Others(removeFormats) + 1]
       IN removeFormats' =
              Append(removeFormats,
                     [key |-> k, name |-> k, show |-> show, active |-> active])
    /\ Update(removeFormats', mounted)
    /\ lastOp' = Op("register")
    /\ UNCHANGED <<disabled, mounted, surrounderApi, surrounderFormats,
                   focusedInput, focused>>

\* the instance script (lines 26-92) and the onMount callback
Initialize ==
    /\ ~mounted
    /\ Count(removeFormats, key) < MaxInits
    /\ removeFormats' = removeFormats \o <<BuiltIn>>
    /\ Update(removeFormats', TRUE)
    /\ disabled' = Disabled(SurrounderActive)
    /\ surrounderFormats' = surrounderFormats \cup {key}
    /\ mounted' = TRUE
    /\ lastOp' = Op("initialize")
    /\ UNCHANGED <<surrounderApi, focusedInput, focused>>

\* the callback onMount returned: unsubscribe from surrounder.active and
\* unregister the format; the registry entry stays
Destroy ==
    /\ mounted
    /\ mounted' = FALSE
    /\ surrounderFormats' = surrounderFormats \ {key}
    /\ activeKeys' = << >>
    /\ inactiveKeys' = << >>
    /\ showFormats' = << >>
    /\ disabled' = FALSE
    /\ lastOp' = Op("destroy")
    /\ UNCHANGED <<removeFormats, surrounderApi, focusedInput, focused>>

\* function remove(): surrounder.remove(activeKeys, inactiveKeys)
remove(via) ==
    /\ lastOp' = [Op("remove") EXCEPT !.via = via, !.prev = lastOp.op,
                                 !.activeKeys = activeKeys,
                                 !.inactiveKeys = inactiveKeys,
                                 !.active = SurrounderActive]
    /\ UNCHANGED <<removeFormats, activeKeys, inactiveKeys, showFormats,
                   disabled, mounted, surrounderApi, surrounderFormats,
                   focusedInput, focused>>

\* <IconButton {disabled} on:click={remove}>
ButtonClick ==
    /\ mounted
    /\ ~disabled
    /\ remove("click")

\* <Shortcut {keyCombination} on:action={remove} />
ShortcutAction ==
    /\ mounted
    /\ remove("shortcut")

\* <DropdownItem on:click={(event) => onItemClick(event, format)}> for
\* a format of the each block over showFormats
onItemClick(i, alt) ==
    /\ mounted
    /\ i \in Shown(showFormats)
    /\ LET r == ItemClick(removeFormats, showFormats, i, alt)
       IN /\ removeFormats' = r.value
          /\ Update(r.value, r.set)
    /\ lastOp' = [Op("itemClick") EXCEPT !.index = i, !.alt = alt,
                                    !.before = removeFormats]
    /\ UNCHANGED <<disabled, mounted, surrounderApi, surrounderFormats,
                   focusedInput, focused>>

\* on:focusin={setFocus}: $focusedInput = api; surrounder.enable(api)
setFocus(api) ==
    /\ focused = 0
    /\ focused' = api
    /\ focusedInput' = api
    /\ surrounderApi' = Enable(api)
    /\ disabled' = IF mounted THEN Disabled(SurrounderActive') ELSE disabled
    /\ lastOp' = [Op("setFocus") EXCEPT !.index = api]
    /\ UNCHANGED <<removeFormats, activeKeys, inactiveKeys, showFormats,
                   mounted, surrounderFormats>>

\* on:focusout={removeFocus}: surrounder.disable()
removeFocus(api) ==
    /\ focused = api
    /\ focused' = 0
    /\ surrounderApi' = NoInput
    /\ disabled' = IF mounted THEN Disabled(SurrounderActive') ELSE disabled
    /\ lastOp' = [Op("removeFocus") EXCEPT !.index = api]
    /\ UNCHANGED <<removeFormats, activeKeys, inactiveKeys, showFormats,
                   mounted, surrounderFormats, focusedInput>>

Next ==
    \/ \E show \in BOOLEAN, active \in BOOLEAN : Register(show, active)
    \/ Initialize
    \/ Destroy
    \/ ButtonClick
    \/ ShortcutAction
    \/ \E i \in 1..(MaxOtherKeys + MaxInits), alt \in BOOLEAN : onItemClick(i, alt)
    \/ \E api \in Inputs : setFocus(api)
    \/ \E api \in Inputs : removeFocus(api)

Spec == Init /\ [][Next]_vars

\* ----------------------------------------------------------------- claims
Range(seq) == {seq[n] : n \in DOMAIN seq}

\* the keys of the entries whose active flag is flag, in registry order
KeysWith(formats, flag) ==
    LET kept == SelectSeq(formats, LAMBDA f : f.active = flag)
    IN [n \in DOMAIN kept |-> kept[n].key]

\* how many entries up to and including the i-th carry the i-th entry's flag
Rank(formats, i) ==
    Cardinality({j \in 1..i : formats[j].active = formats[i].active})

Visible(formats) == {j \in Idx(formats) : formats[j].show}

AltClick == lastOp.op = "itemClick" /\ lastOp.alt
PlainClick == lastOp.op = "itemClick" /\ ~lastOp.alt

\* C1: remove() never runs while the Surrounder has no enabled input:
\* whenever surrounder.remove has just been called, from the button or from
\* the shortcut, surrounder.active was true at the call.
C1_RemoveOnlyWhileActive == lastOp.op = "remove" => lastOp.active

\* C2: activeKeys and inactiveKeys account for every registered entry
\* exactly once: the i-th entry's key stands in activeKeys if the entry is
\* active and in inactiveKeys if it is not, at the position its rank among
\* the entries of the same flag gives it, whatever its show flag, and the
\* two lengths add up to the number of entries.
C2_KeysPartition ==
    mounted =>
        /\ Len(activeKeys) + Len(inactiveKeys) = Len(removeFormats)
        /\ \A i \in Idx(removeFormats) :
             LET r == Rank(removeFormats, i)
                 list == IF removeFormats[i].active THEN activeKeys ELSE inactiveKeys
             IN r <= Len(list) /\ list[r] = removeFormats[i].key

C2_Witness ==
    /\ mounted
    /\ AltClick
    /\ Len(activeKeys) >= 2
    /\ Len(inactiveKeys) >= 1
    /\ \E i \in Idx(removeFormats) : ~removeFormats[i].show /\ ~removeFormats[i].active

\* C3: the arguments of every surrounder.remove call are the partition of
\* the registry by the active flag as the registry stands at the call, not
\* a snapshot from before an earlier click or registration.
C3_RemoveSeesCurrentRegistry ==
    lastOp.op = "remove" =>
        /\ lastOp.activeKeys = KeysWith(removeFormats, TRUE)
        /\ lastOp.inactiveKeys = KeysWith(removeFormats, FALSE)

C3_Witness ==
    /\ lastOp.op = "remove"
    /\ lastOp.prev = "itemClick"
    /\ lastOp.inactiveKeys # << >>
    /\ Len(lastOp.activeKeys) >= 2

\* C4 as claimed: a click with the modifier held deactivates all other
\* visible entries and leaves the clicked entry's flag inverted from its
\* value before the click.
C4_ClickedInverted ==
    AltClick =>
        /\ \A j \in Visible(lastOp.before) \ {lastOp.index} : ~removeFormats[j].active
        /\ removeFormats[lastOp.index].active = ~lastOp.before[lastOp.index].active

\* C4 as amended: a click with the modifier held deactivates all other
\* visible entries and leaves the clicked entry active; its flag is inverted
\* from its value before the click exactly when it was inactive before, and
\* an entry that was active before the click is still active after it.
C4_ClickedActiveAfter ==
    AltClick =>
        LET was == lastOp.before[lastOp.index].active
            now == removeFormats[lastOp.index].active
        IN /\ \A j \in Visible(lastOp.before) \ {lastOp.index} : ~removeFormats[j].active
           /\ (now = ~was) <=> ~was
           /\ was => now

C4_Witness ==
    /\ AltClick
    /\ lastOp.before[lastOp.index].active
    /\ removeFormats[lastOp.index].active
    /\ \E j \in Visible(lastOp.before) \ {lastOp.index} :
          lastOp.before[j].active /\ ~removeFormats[j].active

\* C5: after a click on X with the modifier held, X is active and every
\* other visible entry is inactive, whatever the flags were before.
C5_OnlyClickedActive ==
    AltClick =>
        \A j \in Visible(removeFormats) :
            removeFormats[j].active = (j = lastOp.index)

C5_Witness ==
    /\ AltClick
    /\ \A j \in Visible(lastOp.before) : lastOp.before[j].active
    /\ Cardinality(Visible(lastOp.before)) >= 2
    /\ removeFormats[lastOp.index].active

\* C6: a click without the modifier flips the clicked entry's active flag
\* and nothing else: the registry keeps its length, every other entry is
\* the entry it was, and the clicked entry keeps key, name and show.
C6_PlainClickFlipsOne ==
    PlainClick =>
        /\ Len(removeFormats) = Len(lastOp.before)
        /\ \A j \in Idx(removeFormats) \ {lastOp.index} :
              removeFormats[j] = lastOp.before[j]
        /\ removeFormats[lastOp.index] =
              [lastOp.before[lastOp.index] EXCEPT
                  !.active = ~lastOp.before[lastOp.index].active]

C6_Witness ==
    /\ PlainClick
    /\ ~removeFormats[lastOp.index].active
    /\ \E j \in Visible(removeFormats) \ {lastOp.index} : removeFormats[j].active

\* C7: while the component is mounted, disabled is the negation of
\* surrounder.active, in every state: false once focusin has enabled an
\* input, true once focusout has disabled it.
C7_DisabledMirrorsActive ==
    mounted => (disabled <=> surrounderApi = NoInput)

C7_Witness ==
    /\ mounted
    /\ lastOp.op = "setFocus"
    /\ ~disabled
    /\ surrounderApi = 2

\* C8: the two key lists of a surrounder.remove call share no key.
C8_RemoveListsDisjoint ==
    lastOp.op = "remove" =>
        Range(lastOp.activeKeys) \cap Range(lastOp.inactiveKeys) = {}

C8_Witness ==
    /\ lastOp.op = "remove"
    /\ lastOp.activeKeys # << >>
    /\ lastOp.inactiveKeys # << >>

\* C9: the keys of the registry are pairwise distinct in every state, also
\* after the component was unmounted and initialised again.
C9_KeysDistinct ==
    \A i, j \in Idx(removeFormats) :
        i # j => removeFormats[i].key # removeFormats[j].key

\* C10: the built-in entry stays hidden and active through every click, and
\* its key is among the active keys of every surrounder.remove call.
C10_SimpleSpansActive ==
    /\ \A i \in Idx(removeFormats) :
          removeFormats[i].key = key =>
              removeFormats[i].active /\ ~removeFormats[i].show
    /\ lastOp.op = "remove" => key \in Range(lastOp.activeKeys)

C10_Witness ==
    /\ AltClick
    /\ HasKey(lastOp.before, key)
    /\ \E j \in Visible(lastOp.before) \ {lastOp.index} :
          lastOp.before[j].active /\ ~removeFormats[j].active
    /\ key \in Range(activeKeys)

====
